---------------------------- MODULE Spec2Model ----------------------------
(***************************************************************************)
(* Model of the synapscribe-backend cloud functions: UserRegistration      *)
(* (with User.Validate), UserAuthentication, UserProfileManagement,        *)
(* MediaUpload and AudioTranscription.                                     *)
(*                                                                         *)
(* Strings are sequences of characters; a character is a one-element       *)
(* string.  A non-ASCII character is written by its code point, e.g.       *)
(* "U+00E9" (e acute), and carries its UTF-8 width, since Go's len counts  *)
(* bytes and strings.ToLower / strings.ToUpper map runes.                  *)
(***************************************************************************)
EXTENDS Naturals, Sequences, FiniteSets

VARIABLES
    val,         \* User.Validate: the receiver and the returned error
    reg,         \* one UserRegistration invocation
    accounts,    \* identity provider: accounts created by CreateUser
    au,          \* one UserAuthentication invocation
    prof,        \* one UserProfileManagement invocation
    users,       \* identity provider: the user records, by UID
    upl,         \* one MediaUpload invocation
    mediaBucket, \* object storage: bucket "synapscribe-media", key -> content
    tr,          \* AudioTranscription invocations, one per event delivery
    destBucket,  \* object storage: the TRANSCRIPTION_BUCKET, name -> content
    geminiFiles  \* transcription service: files stored by UploadFile

vars == <<val, reg, accounts, au, prof, users, upl, mediaBucket, tr,
          destBucket, geminiFiles>>

----------------------------------------------------------------------------
(* Characters and the Go string functions the handlers use.                *)

LowerSeq == <<"a","b","c","d","e","f","g","h","i","j","k","l","m",
              "n","o","p","q","r","s","t","u","v","w","x","y","z">>
UpperSeq == <<"A","B","C","D","E","F","G","H","I","J","K","L","M",
              "N","O","P","Q","R","S","T","U","V","W","X","Y","Z">>

Range(s) == {s[i] : i \in 1..Len(s)}

LowerAZ == Range(LowerSeq)
UpperAZ == Range(UpperSeq)
Digits  == {"0","1","2","3","4","5","6","7","8","9"}

\* Non-ASCII letters of the model: e acute (lower case, upper case) and the
\* small letter kra, a lower-case letter that has no upper-case form.
EAcuteLower == "U+00E9"
EAcuteUpper == "U+00C9"
Kra         == "U+0138"

\* White space as strings.TrimSpace sees it (unicode.IsSpace): the six
\* ASCII spaces (U+000B is the vertical tab), next line and no-break space,
\* and the characters of the Unicode property White_Space above Latin-1.
WhiteSpace ==
    {" ", "\t", "\n", "U+000B", "\f", "\r", "U+0085", "U+00A0",
     "U+1680", "U+2000", "U+2001", "U+2002", "U+2003", "U+2004", "U+2005",
     "U+2006", "U+2007", "U+2008", "U+2009", "U+200A", "U+2028", "U+2029",
     "U+202F", "U+205F", "U+3000"}

\* The characters of the model that UTF-8 encodes in two and in three bytes.
TwoByteRunes == {EAcuteLower, EAcuteUpper, Kra, "U+0085", "U+00A0"}
ThreeByteRunes ==
    WhiteSpace \ {" ", "\t", "\n", "U+000B", "\f", "\r", "U+0085", "U+00A0"}

\* Unicode categories Lu and Ll over the model's characters.
UpperLetters == UpperAZ \cup {EAcuteUpper}
LowerLetters == LowerAZ \cup {EAcuteLower, Kra}

IndexOf(seq, c) == CHOOSE i \in 1..Len(seq) : seq[i] = c

\* unicode.ToLower / unicode.ToUpper of one rune.
ToLowerRune(c) ==
    IF c \in UpperAZ THEN LowerSeq[IndexOf(UpperSeq, c)]
    ELSE IF c = EAcuteUpper THEN EAcuteLower
    ELSE c

ToUpperRune(c) ==
    IF c \in LowerAZ THEN UpperSeq[IndexOf(LowerSeq, c)]
    ELSE IF c = EAcuteLower THEN EAcuteUpper
    ELSE c

\* strings.ToLower, strings.ToUpper
ToLower(s) == [i \in 1..Len(s) |-> ToLowerRune(s[i])]
ToUpper(s) == [i \in 1..Len(s) |-> ToUpperRune(s[i])]

\* The UTF-8 width of a rune, and Go's len(s): the number of bytes.
RuneLen(c) ==
    IF c \in TwoByteRunes THEN 2 ELSE IF c \in ThreeByteRunes THEN 3 ELSE 1

RECURSIVE ByteLen(_)
ByteLen(s) == IF s = <<>> THEN 0 ELSE RuneLen(Head(s)) + ByteLen(Tail(s))

\* strings.TrimSpace
RECURSIVE TrimLeft(_)
TrimLeft(s) ==
    IF s # <<>> /\ Head(s) \in WhiteSpace THEN TrimLeft(Tail(s)) ELSE s

RECURSIVE TrimRight(_)
TrimRight(s) ==
    IF s # <<>> /\ s[Len(s)] \in WhiteSpace
    THEN TrimRight(SubSeq(s, 1, Len(s) - 1))
    ELSE s

TrimSpace(s) == TrimRight(TrimLeft(s))

\* strings.HasPrefix, strings.TrimPrefix
HasPrefix(s, p) == Len(s) >= Len(p) /\ SubSeq(s, 1, Len(p)) = p
TrimPrefix(s, p) == IF HasPrefix(s, p) THEN SubSeq(s, Len(p) + 1, Len(s)) ELSE s

RECURSIVE Rep(_, _)
Rep(c, n) == IF n = 0 THEN <<>> ELSE <<c>> \o Rep(c, n - 1)

----------------------------------------------------------------------------
(* User.Validate (registration).                                           *)

MinPasswordLen == 8
MinTldLen == 2
MaxTldLen == 4

EmailLocalChars  == LowerAZ \cup Digits \cup {".", "_", "%", "+", "-"}
EmailDomainChars == LowerAZ \cup Digits \cup {".", "-"}

\* emailRegex.MatchString: ^[a-z0-9._%+\-]+@[a-z0-9.\-]+\.[a-z]{2,4}$
emailRegex(s) ==
    \E i \in 1..Len(s) : \E j \in 1..Len(s) :
        /\ s[i] = "@"
        /\ i >= 2
        /\ \A k \in 1..(i - 1) : s[k] \in EmailLocalChars
        /\ s[j] = "."
        /\ j >= i + 2
        /\ \A k \in (i + 1)..(j - 1) : s[k] \in EmailDomainChars
        /\ (Len(s) - j) \in MinTldLen..MaxTldLen
        /\ \A k \in (j + 1)..Len(s) : s[k] \in LowerAZ

containsUppercase(s) == ToLower(s) # s
containsLowercase(s) == ToUpper(s) # s
containsNumber(s) == \E i \in 1..Len(s) : s[i] \in Digits

ErrEmail    == "invalid email format"
ErrShort    == "password must be at least 8 characters long"
ErrClasses  == "password must contain at least one uppercase letter, one lowercase letter, and one number"
ErrName     == "name cannot be empty"
Nil         == "nil"

Validate(u) ==
    IF ~emailRegex(u.email) THEN ErrEmail
    ELSE IF ByteLen(u.password) < MinPasswordLen THEN ErrShort
    ELSE IF ~containsUppercase(u.password) \/ ~containsLowercase(u.password)
            \/ ~containsNumber(u.password) THEN ErrClasses
    ELSE IF TrimSpace(u.name) = <<>> THEN ErrName
    ELSE Nil


\* Inputs of Validate: e-mail addresses assembled from parts (well formed and
\* malformed in each position) and the addresses the specification names.
MaxRun  == 3   \* longest run of one ASCII character in a password
MaxWide == 2   \* longest run of one two-byte character in a password

Str_user_example_com ==
    <<"u","s","e","r","@","e","x","a","m","p","l","e",".","c","o","m">>
Str_foo_bar   == <<"f","o","o","@","b","a","r">>
Str_a_b_com   == <<"a","@","b",".","c","o","m">>
Str_Ada       == <<"A","d","a">>
Str_Passw0rd  == <<"P","a","s","s","w","0","r","d">>

EmailLocals  == {<<>>, <<"a","_","1">>, <<"A">>}
EmailAts     == {<<>>, <<"@">>}
EmailDomains == {<<>>, <<"b">>, <<"b","_">>}
EmailTlds    == {<<>>, <<".","c">>, <<".","c","d">>, <<".","c","d","e","f">>,
                 <<".","c","d","e","f","g">>, <<".","c","1">>, <<".","C","D">>,
                 <<".","c","d","\n">>}

Emails ==
    {l \o a \o d \o t : l \in EmailLocals, a \in EmailAts,
                        d \in EmailDomains, t \in EmailTlds}
    \cup {Str_user_example_com, Str_foo_bar, Str_a_b_com,
          <<"a","@","b",".","t","o","o","l","o","n","g">>}

Passwords ==
    {Rep("A", i) \o Rep("a", j) \o Rep("1", k) \o Rep(EAcuteLower, l) \o Rep(Kra, m) :
        i \in 0..MaxRun, j \in 0..MaxRun, k \in 0..MaxRun,
        l \in 0..MaxWide, m \in 0..MaxWide}
    \cup {Str_Passw0rd}

Names ==
    {<<>>, <<" ", "\t">>, <<" ", "A", "d", "a", " ">>,
     <<"\f", "U+000B", "U+00A0">>, <<"U+0085", "A", "d", "a", "U+3000">>}

Pending == "pending"

ValIdle  == [user |-> [email |-> <<>>, password |-> <<>>, name |-> <<>>],
             result |-> "unused"]

\* One call of u.Validate().
DoValidate ==
    /\ val.result = Pending
    /\ val' = [val EXCEPT !.result = Validate(val.user)]
    /\ UNCHANGED <<reg, accounts, au, prof, users, upl, mediaBucket, tr,
                   destBucket, geminiFiles>>

----------------------------------------------------------------------------
(* UserRegistration and RegisterUser.                                      *)

StatusOK                  == 200
StatusCreated             == 201
StatusBadRequest          == 400
StatusUnauthorized        == 401
StatusMethodNotAllowed    == 405
StatusInternalServerError == 500

MaxRegistrations == 2   \* registration requests served in one behaviour

NoUser == [email |-> <<>>, password |-> <<>>, name |-> <<>>]

\* Request bodies: a body that does not decode, or the JSON of a user.
RegUsers ==
    {[email |-> e, password |-> p, name |-> n] :
        e \in {Str_a_b_com, Str_foo_bar, Str_user_example_com},
        p \in {Str_Passw0rd, <<"p","w">>},
        n \in {Str_Ada, <<" ">>}}
RegBodies ==
    {[wellFormed |-> TRUE, user |-> u] : u \in RegUsers}
    \cup {[wellFormed |-> FALSE, user |-> NoUser]}

\* before: the provider's accounts when the request arrived (history only).
RegIdle == [pc |-> "idle", served |-> 0,
            body |-> [wellFormed |-> FALSE, user |-> NoUser],
            user |-> NoUser, calls |-> <<>>, userID |-> 0, before |-> {},
            status |-> 0, resp |-> [message |-> ""]]

\* The platform hands a request to the handler.
RegReceive ==
    /\ reg.pc \in {"idle", "done"}
    /\ reg.served < MaxRegistrations
    /\ \E b \in RegBodies :
        reg' = [RegIdle EXCEPT !.pc = "decode", !.served = reg.served + 1,
                               !.body = b, !.before = accounts]
    /\ UNCHANGED <<val, accounts, au, prof, users, upl, mediaBucket, tr,
                   destBucket, geminiFiles>>

\* json.NewDecoder(r.Body).Decode(&user)
RegDecode ==
    /\ reg.pc = "decode"
    /\ IF reg.body.wellFormed
       THEN reg' = [reg EXCEPT !.pc = "validate", !.user = reg.body.user]
       ELSE reg' = [reg EXCEPT !.pc = "done",
                        !.status = StatusBadRequest,
                        !.resp = [message |-> "Invalid request body"]]
    /\ UNCHANGED <<val, accounts, au, prof, users, upl, mediaBucket, tr,
                   destBucket, geminiFiles>>

\* Mutant of RegValidate: the result of Validate is not checked.
RegValidateSkipped ==
    /\ reg.pc = "validate"
    /\ reg' = [reg EXCEPT !.pc = "newApp"]
    /\ UNCHANGED <<val, accounts, au, prof, users, upl, mediaBucket, tr,
                   destBucket, geminiFiles>>

\* user.Validate() in the handler
RegValidate ==
    /\ reg.pc = "validate"
    /\ LET err == Validate(reg.user) IN
       IF err = Nil
       THEN reg' = [reg EXCEPT !.pc = "newApp"]
       ELSE reg' = [reg EXCEPT !.pc = "done",
                        !.status = StatusBadRequest,
                        !.resp = [message |-> err]]
    /\ UNCHANGED <<val, accounts, au, prof, users, upl, mediaBucket, tr,
                   destBucket, geminiFiles>>

\* The handler's answer to an error of RegisterUser.
RegFailed(call) ==
    [reg EXCEPT !.pc = "done", !.calls = Append(reg.calls, call),
                !.status = StatusInternalServerError,
                !.resp = [message |-> "Failed to register user"]]

\* firebase.NewApp(ctx, nil)
RegNewApp ==
    /\ reg.pc = "newApp"
    /\ \E ok \in BOOLEAN :
        reg' = IF ok
               THEN [reg EXCEPT !.pc = "authClient",
                                !.calls = Append(reg.calls, "NewApp")]
               ELSE RegFailed("NewApp")
    /\ UNCHANGED <<val, accounts, au, prof, users, upl, mediaBucket, tr,
                   destBucket, geminiFiles>>

\* app.Auth(ctx)
RegAuthClient ==
    /\ reg.pc = "authClient"
    /\ \E ok \in BOOLEAN :
        reg' = IF ok
               THEN [reg EXCEPT !.pc = "createUser",
                                !.calls = Append(reg.calls, "Auth")]
               ELSE RegFailed("Auth")
    /\ UNCHANGED <<val, accounts, au, prof, users, upl, mediaBucket, tr,
                   destBucket, geminiFiles>>

\* The UserToCreate parameters RegisterUser builds from the user.
CreateParams(user) ==
    [email |-> user.email, password |-> user.password, displayName |-> user.name]

\* client.CreateUser(ctx, params): the provider refuses a duplicate e-mail
\* and may be unavailable; otherwise it stores the account under a new UID.
RegCreateUser ==
    /\ reg.pc = "createUser"
    /\ LET params == CreateParams(reg.user)
           uid    == Cardinality(accounts) + 1
       IN \E available \in BOOLEAN :
           IF available /\ \A a \in accounts : a.email # params.email
           THEN /\ accounts' = accounts \cup
                       {[uid |-> uid, email |-> params.email,
                         password |-> params.password,
                         displayName |-> params.displayName]}
                /\ reg' = [reg EXCEPT !.pc = "respond", !.userID = uid,
                                !.calls = Append(reg.calls, "CreateUser")]
           ELSE /\ accounts' = accounts
                /\ reg' = RegFailed("CreateUser")
    /\ UNCHANGED <<val, au, prof, users, upl, mediaBucket, tr,
                   destBucket, geminiFiles>>

\* The UserResponse the handler encodes.
UserResponse(userID, user) ==
    [id |-> userID, email |-> user.email, name |-> user.name]

\* w.WriteHeader(http.StatusCreated); json.NewEncoder(w).Encode(response)
RegRespond ==
    /\ reg.pc = "respond"
    /\ reg' = [reg EXCEPT !.pc = "done", !.status = StatusCreated,
                          !.resp = UserResponse(reg.userID, reg.user)]
    /\ UNCHANGED <<val, accounts, au, prof, users, upl, mediaBucket, tr,
                   destBucket, geminiFiles>>

----------------------------------------------------------------------------
(* UserAuthentication and authenticateWithFirebase.                        *)

MaxLogins == 2   \* authentication requests served in one behaviour

\* The accounts the sign-in endpoint knows: e-mail, password, UID, name.
SignInAccounts ==
    {[email |-> Str_a_b_com, password |-> Str_Passw0rd, uid |-> 1,
      displayName |-> Str_Ada],
     [email |-> Str_user_example_com, password |-> Str_Passw0rd, uid |-> 2,
      displayName |-> <<>>]}

LoginBodies ==
    {[wellFormed |-> TRUE, email |-> e, password |-> p] :
        e \in {Str_a_b_com, Str_user_example_com, Str_foo_bar},
        p \in {Str_Passw0rd, <<"p","w">>}}
    \cup {[wellFormed |-> FALSE, email |-> <<>>, password |-> <<>>]}

NoSignIn == [status |-> 0, parsed |-> FALSE, idToken |-> "", email |-> <<>>,
             localId |-> 0, displayName |-> <<>>]

AuIdle == [pc |-> "idle", served |-> 0,
           body |-> [wellFormed |-> FALSE, email |-> <<>>, password |-> <<>>],
           apiKey |-> FALSE, signIn |-> NoSignIn, verified |-> "no",
           uid |-> 0, calls |-> <<>>, status |-> 0, resp |-> [message |-> ""]]

\* The platform hands a request to the handler; FIREBASE_API_KEY is set or not.
AuReceive ==
    /\ au.pc \in {"idle", "done"}
    /\ au.served < MaxLogins
    /\ \E b \in LoginBodies : \E key \in BOOLEAN :
        au' = [AuIdle EXCEPT !.pc = "decode", !.served = au.served + 1,
                             !.body = b, !.apiKey = key]
    /\ UNCHANGED <<val, reg, accounts, prof, users, upl, mediaBucket, tr,
                   destBucket, geminiFiles>>

\* json.NewDecoder(r.Body).Decode(&loginReq)
AuDecode ==
    /\ au.pc = "decode"
    /\ au' = IF au.body.wellFormed
             THEN [au EXCEPT !.pc = "signIn",
                             !.calls = Append(au.calls, "Decode")]
             ELSE [au EXCEPT !.pc = "done",
                             !.calls = Append(au.calls, "Decode"),
                             !.status = StatusBadRequest,
                             !.resp = [message |-> "Invalid request body"]]
    /\ UNCHANGED <<val, reg, accounts, prof, users, upl, mediaBucket, tr,
                   destBucket, geminiFiles>>

\* What the signInWithPassword endpoint answers: 200 with the account's
\* token for matching credentials, 400 otherwise, 500 when it is down; the
\* body of a 200 answer may still fail to unmarshal.
SignInAnswers(email, password) ==
    LET match == {a \in SignInAccounts :
                     a.email = email /\ a.password = password}
    IN  {[status |-> StatusOK, parsed |-> ok, idToken |-> t,
          email |-> a.email, localId |-> a.uid, displayName |-> a.displayName] :
            a \in match, ok \in BOOLEAN, t \in {"tokenA", "tokenB"}}
        \cup {[NoSignIn EXCEPT !.status = st] :
                st \in (IF match = {} THEN {StatusBadRequest} ELSE {})
                       \cup {StatusInternalServerError}}

\* The handler's answer to an error of authenticateWithFirebase.
AuSignInFailed(reason) ==
    [au EXCEPT !.pc = "done", !.status = StatusUnauthorized,
               !.resp = [message |-> "Authentication failed: " \o reason]]

\* authenticateWithFirebase up to the request: the API key is missing, or
\* http.Post / io.ReadAll fails.
AuSignInNoAnswer ==
    /\ au.pc = "signIn"
    /\ \/ /\ ~au.apiKey
          /\ au' = AuSignInFailed("FIREBASE_API_KEY environment variable is not set")
       \/ /\ au.apiKey
          /\ \E reason \in {"failed to send request", "failed to read response body"} :
              au' = [AuSignInFailed(reason) EXCEPT
                        !.calls = Append(au.calls, "signInWithPassword")]
    /\ UNCHANGED <<val, reg, accounts, prof, users, upl, mediaBucket, tr,
                   destBucket, geminiFiles>>

\* authenticateWithFirebase when the endpoint answered.
AuSignIn ==
    /\ au.pc = "signIn"
    /\ au.apiKey
    /\ \E ans \in SignInAnswers(au.body.email, au.body.password) :
        LET called == [au EXCEPT !.calls = Append(au.calls, "signInWithPassword"),
                                 !.signIn = ans]
        IN au' = IF ans.status # StatusOK
                 THEN [called EXCEPT !.pc = "done", !.status = StatusUnauthorized,
                          !.resp = [message |-> "Authentication failed: authentication failed"]]
                 ELSE IF ~ans.parsed
                 THEN [called EXCEPT !.pc = "done", !.status = StatusUnauthorized,
                          !.resp = [message |-> "Authentication failed: failed to unmarshal response"]]
                 ELSE [called EXCEPT !.pc = "newApp"]
    /\ UNCHANGED <<val, reg, accounts, prof, users, upl, mediaBucket, tr,
                   destBucket, geminiFiles>>

\* firebase.NewApp(ctx, nil)
AuNewApp ==
    /\ au.pc = "newApp"
    /\ \E ok \in BOOLEAN :
        au' = IF ok
              THEN [au EXCEPT !.pc = "authClient",
                              !.calls = Append(au.calls, "NewApp")]
              ELSE [au EXCEPT !.pc = "done",
                              !.calls = Append(au.calls, "NewApp"),
                              !.status = StatusInternalServerError,
                              !.resp = [message |-> "Failed to initialize Firebase app"]]
    /\ UNCHANGED <<val, reg, accounts, prof, users, upl, mediaBucket, tr,
                   destBucket, geminiFiles>>

\* app.Auth(ctx)
AuAuthClient ==
    /\ au.pc = "authClient"
    /\ \E ok \in BOOLEAN :
        au' = IF ok
              THEN [au EXCEPT !.pc = "verify",
                              !.calls = Append(au.calls, "Auth")]
              ELSE [au EXCEPT !.pc = "done",
                              !.calls = Append(au.calls, "Auth"),
                              !.status = StatusInternalServerError,
                              !.resp = [message |-> "Failed to get Firebase Auth client"]]
    /\ UNCHANGED <<val, reg, accounts, prof, users, upl, mediaBucket, tr,
                   destBucket, geminiFiles>>

\* Mutant of AuVerify: the error of VerifyIDToken is not checked.
AuVerifyUnchecked ==
    /\ au.pc = "verify"
    /\ \E ok \in BOOLEAN :
        au' = [au EXCEPT !.pc = "respond",
                         !.verified = IF ok THEN "ok" ELSE "failed",
                         !.uid = IF ok THEN au.signIn.localId ELSE 0,
                         !.calls = Append(au.calls, "VerifyIDToken")]
    /\ UNCHANGED <<val, reg, accounts, prof, users, upl, mediaBucket, tr,
                   destBucket, geminiFiles>>

\* client.VerifyIDToken(ctx, firebaseResp.IDToken): the provider accepts the
\* token and names its UID, or rejects it.
AuVerify ==
    /\ au.pc = "verify"
    /\ \E ok \in BOOLEAN :
        au' = IF ok
              THEN [au EXCEPT !.pc = "respond", !.verified = "ok",
                              !.uid = au.signIn.localId,
                              !.calls = Append(au.calls, "VerifyIDToken")]
              ELSE [au EXCEPT !.pc = "done", !.verified = "failed",
                              !.calls = Append(au.calls, "VerifyIDToken"),
                              !.status = StatusUnauthorized,
                              !.resp = [message |-> "Invalid ID token"]]
    /\ UNCHANGED <<val, reg, accounts, prof, users, upl, mediaBucket, tr,
                   destBucket, geminiFiles>>

\* The LoginResponse the handler encodes.
LoginResponse(signIn, uid) ==
    [idToken |-> signIn.idToken,
     user |-> [id |-> uid, email |-> signIn.email, name |-> signIn.displayName]]

\* json.NewEncoder(w).Encode(response): the first write answers 200.
AuRespond ==
    /\ au.pc = "respond"
    /\ au' = [au EXCEPT !.pc = "done", !.status = StatusOK,
                        !.resp = LoginResponse(au.signIn, au.uid)]
    /\ UNCHANGED <<val, reg, accounts, prof, users, upl, mediaBucket, tr,
                   destBucket, geminiFiles>>

----------------------------------------------------------------------------
(* UserProfileManagement, handleGetProfile, handleUpdateProfile.           *)

MaxProfileRequests == 2   \* profile requests served in one behaviour

Str_Bearer  == <<"B","e","a","r","e","r"," ">>
Token1  == <<"t","1">>
Token2  == <<"t","2">>
TokenRevoked == <<"r","v">>
TokenForged  == <<"x">>

\* The provider's view of ID tokens: the UID a token carries, and whether
\* the token has been revoked.  Any other token is invalid.
TokenUID(t) == IF t = Token1 THEN 1
               ELSE IF t = Token2 \/ t = TokenRevoked THEN 2
               ELSE 0
TokenValid(t) == t \in {Token1, Token2}

UIDs == {1, 2}

\* Values a request carries in one header; <<>> stands for an absent header
\* (Header.Get answers "" for it).
Tokens == {Token1, Token2, TokenRevoked, TokenForged}
HeaderValues ==
    {<<>>, Str_Bearer, <<"b","e","a","r","e","r"," ">> \o Token1, <<"B","a","s","i","c"," ">> \o Token1, Token1}
    \cup {Str_Bearer \o t : t \in Tokens}

Methods == {"GET", "PUT", "POST", "DELETE"}

ProfileBodies ==
    {[wellFormed |-> TRUE, name |-> n] : n \in {Str_Ada, <<"B","o","b">>, <<>>}}
    \cup {[wellFormed |-> FALSE, name |-> <<>>]}

ProfileRequests ==
    {[method |-> m, xForwardedAuthorization |-> x, authorization |-> a, body |-> b] :
        m \in Methods, x \in HeaderValues,
        a \in {<<>>, Str_Bearer \o Token1}, b \in ProfileBodies}

NoRequest == [method |-> "", xForwardedAuthorization |-> <<>>,
              authorization |-> <<>>, body |-> [wellFormed |-> FALSE, name |-> <<>>]]

\* The provider's records when the functions are deployed.
InitialUsers ==
    [u \in UIDs |->
        [uid |-> u,
         email |-> IF u = 1 THEN Str_a_b_com ELSE Str_user_example_com,
         displayName |-> IF u = 1 THEN Str_Ada ELSE <<>>,
         creationTimestamp |-> IF u = 1 THEN 1500 ELSE 61999]]

\* calls: the provider calls made so far; failed: the call that returned an
\* error; before: the provider's records when the request arrived (history
\* only).
ProfIdle == [pc |-> "idle", served |-> 0, req |-> NoRequest, idToken |-> <<>>,
             verifiedUID |-> 0, calls |-> <<>>, failed |-> "",
             before |-> InitialUsers,
             status |-> 0, resp |-> [message |-> ""]]

\* One call to the identity provider: the operation and the UID it targets
\* (0 when it targets no user record).
Call(op, uid) == [op |-> op, uid |-> uid]

\* Mutant of extractToken: falls back to the standard Authorization header.
extractTokenAnyHeader(r) ==
    LET bearerToken == IF r.xForwardedAuthorization # <<>>
                       THEN r.xForwardedAuthorization ELSE r.authorization
    IN  IF bearerToken # <<>> /\ HasPrefix(bearerToken, Str_Bearer)
        THEN TrimPrefix(bearerToken, Str_Bearer)
        ELSE <<>>

\* extractToken(r)
extractToken(r) ==
    LET bearerToken == r.xForwardedAuthorization IN
    IF bearerToken # <<>> /\ HasPrefix(bearerToken, Str_Bearer)
    THEN TrimPrefix(bearerToken, Str_Bearer)
    ELSE <<>>

MillisPerSecond == 1000

\* The UserProfile both handlers encode: time.Unix(ms/1000, 0) keeps whole
\* seconds only.
UserProfile(user) ==
    [id |-> user.uid, email |-> user.email, name |-> user.displayName,
     createdAt |-> user.creationTimestamp \div MillisPerSecond]

\* The platform hands a request to the handler.
ProfReceive ==
    /\ prof.pc \in {"idle", "done"}
    /\ prof.served < MaxProfileRequests
    /\ \E r \in ProfileRequests :
        prof' = [ProfIdle EXCEPT !.pc = "newApp", !.served = prof.served + 1,
                                 !.req = r, !.before = users]
    /\ UNCHANGED <<val, reg, accounts, au, users, upl, mediaBucket, tr,
                   destBucket, geminiFiles>>

\* firebase.NewApp(ctx, config)
ProfNewApp ==
    /\ prof.pc = "newApp"
    /\ \E ok \in BOOLEAN :
        prof' = IF ok
                THEN [prof EXCEPT !.pc = "authClient",
                                  !.calls = Append(prof.calls, Call("NewApp", 0))]
                ELSE [prof EXCEPT !.pc = "done",
                                  !.calls = Append(prof.calls, Call("NewApp", 0)),
                                  !.failed = "NewApp",
                                  !.status = StatusInternalServerError,
                                  !.resp = [message |-> "Error initializing app"]]
    /\ UNCHANGED <<val, reg, accounts, au, users, upl, mediaBucket, tr,
                   destBucket, geminiFiles>>

\* app.Auth(ctx)
ProfAuthClient ==
    /\ prof.pc = "authClient"
    /\ \E ok \in BOOLEAN :
        prof' = IF ok
                THEN [prof EXCEPT !.pc = "extract",
                                  !.calls = Append(prof.calls, Call("Auth", 0))]
                ELSE [prof EXCEPT !.pc = "done",
                                  !.calls = Append(prof.calls, Call("Auth", 0)),
                                  !.failed = "Auth",
                                  !.status = StatusInternalServerError,
                                  !.resp = [message |-> "Error getting Auth client"]]
    /\ UNCHANGED <<val, reg, accounts, au, users, upl, mediaBucket, tr,
                   destBucket, geminiFiles>>

\* idToken := extractToken(r); if idToken == "" { 401 }
ProfExtract ==
    /\ prof.pc = "extract"
    /\ LET idToken == extractToken(prof.req) IN
       prof' = IF idToken = <<>>
               THEN [prof EXCEPT !.pc = "done", !.status = StatusUnauthorized,
                                 !.resp = [message |-> "No token provided"]]
               ELSE [prof EXCEPT !.pc = "verify", !.idToken = idToken]
    /\ UNCHANGED <<val, reg, accounts, au, users, upl, mediaBucket, tr,
                   destBucket, geminiFiles>>

\* authClient.VerifyIDTokenAndCheckRevoked(ctx, idToken): succeeds only for
\* a valid, unrevoked token, and may fail for one when the revocation check
\* cannot reach the provider.
ProfVerify ==
    /\ prof.pc = "verify"
    /\ \E reachable \in BOOLEAN :
        prof' = IF reachable /\ TokenValid(prof.idToken)
                THEN [prof EXCEPT !.pc = "dispatch",
                          !.verifiedUID = TokenUID(prof.idToken),
                          !.calls = Append(prof.calls,
                              Call("VerifyIDTokenAndCheckRevoked", TokenUID(prof.idToken)))]
                ELSE [prof EXCEPT !.pc = "done",
                          !.calls = Append(prof.calls, Call("VerifyIDTokenAndCheckRevoked", 0)),
                          !.failed = "VerifyIDTokenAndCheckRevoked",
                          !.status = StatusUnauthorized,
                          !.resp = [message |-> "Invalid token"]]
    /\ UNCHANGED <<val, reg, accounts, au, users, upl, mediaBucket, tr,
                   destBucket, geminiFiles>>

\* switch r.Method
ProfDispatch ==
    /\ prof.pc = "dispatch"
    /\ prof' = IF prof.req.method = "GET" THEN [prof EXCEPT !.pc = "getUser"]
               ELSE IF prof.req.method = "PUT" THEN [prof EXCEPT !.pc = "decode"]
               ELSE [prof EXCEPT !.pc = "done",
                                 !.status = StatusMethodNotAllowed,
                                 !.resp = [message |-> "Method not allowed"]]
    /\ UNCHANGED <<val, reg, accounts, au, users, upl, mediaBucket, tr,
                   destBucket, geminiFiles>>

\* handleGetProfile: authClient.GetUser(r.Context(), uid), then the answer.
handleGetProfile ==
    /\ prof.pc = "getUser"
    /\ LET uid == prof.verifiedUID IN
       \E ok \in BOOLEAN :
        prof' = IF ok
                THEN [prof EXCEPT !.pc = "done",
                          !.calls = Append(prof.calls, Call("GetUser", uid)),
                          !.status = StatusOK,
                          !.resp = UserProfile(users[uid])]
                ELSE [prof EXCEPT !.pc = "done",
                          !.calls = Append(prof.calls, Call("GetUser", uid)),
                          !.failed = "GetUser",
                          !.status = StatusInternalServerError,
                          !.resp = [message |-> "Error getting user"]]
    /\ UNCHANGED <<val, reg, accounts, au, users, upl, mediaBucket, tr,
                   destBucket, geminiFiles>>

\* handleUpdateProfile: json.NewDecoder(r.Body).Decode(&update)
ProfDecode ==
    /\ prof.pc = "decode"
    /\ prof' = IF prof.req.body.wellFormed
               THEN [prof EXCEPT !.pc = "updateUser"]
               ELSE [prof EXCEPT !.pc = "done", !.status = StatusBadRequest,
                                 !.resp = [message |-> "Invalid request body"]]
    /\ UNCHANGED <<val, reg, accounts, au, users, upl, mediaBucket, tr,
                   destBucket, geminiFiles>>

\* Mutant of UpdateParams: the e-mail is set as well (to the zero value).
UpdateParamsWithEmail(update) == [displayName |-> update.name, email |-> <<>>]

\* The UserToUpdate parameters handleUpdateProfile builds: the fields to set.
UpdateParams(update) == [displayName |-> update.name]

\* The provider's UpdateUser: the record with the given fields replaced.
ApplyUpdate(user, params) ==
    [f \in DOMAIN user |-> IF f \in DOMAIN params THEN params[f] ELSE user[f]]

\* handleUpdateProfile: authClient.UpdateUser(r.Context(), uid, params),
\* then the answer.
handleUpdateProfile ==
    /\ prof.pc = "updateUser"
    /\ LET uid     == prof.verifiedUID
           params  == UpdateParams(prof.req.body)
           updated == ApplyUpdate(users[uid], params)
       IN \E ok \in BOOLEAN :
           IF ok
           THEN /\ users' = [users EXCEPT ![uid] = updated]
                /\ prof' = [prof EXCEPT !.pc = "done",
                                !.calls = Append(prof.calls, Call("UpdateUser", uid)),
                                !.status = StatusOK,
                                !.resp = UserProfile(updated)]
           ELSE /\ users' = users
                /\ prof' = [prof EXCEPT !.pc = "done",
                                !.calls = Append(prof.calls, Call("UpdateUser", uid)),
                                !.failed = "UpdateUser",
                                !.status = StatusInternalServerError,
                                !.resp = [message |-> "Error updating user"]]
    /\ UNCHANGED <<val, reg, accounts, au, upl, mediaBucket, tr,
                   destBucket, geminiFiles>>

----------------------------------------------------------------------------
(* MediaUpload and getFileType.                                            *)

MaxUploads == 1   \* upload requests served in one behaviour

Str_audio == <<"a","u","d","i","o">>
Str_video == <<"v","i","d","e","o">>
Str_image == <<"i","m","a","g","e">>

AudioExts == {<<".","m","p","3">>, <<".","w","a","v">>, <<".","o","g","g">>}
VideoExts == {<<".","m","p","4">>, <<".","m","o","v">>, <<".","a","v","i">>}
ImageExts == {<<".","j","p","g">>, <<".","j","p","e","g">>, <<".","p","n","g">>,
              <<".","g","i","f">>}

\* filepath.Ext: the suffix that starts at the last dot of the last path
\* element; empty when that element has no dot.
RECURSIVE ExtFrom(_, _)
ExtFrom(path, i) ==
    IF i < 1 \/ path[i] = "/" THEN <<>>
    ELSE IF path[i] = "." THEN SubSeq(path, i, Len(path))
    ELSE ExtFrom(path, i - 1)

\* Mutant of Ext: the suffix that starts at the first dot.
ExtFirstDot(path) ==
    LET dots == {i \in 1..Len(path) : path[i] = "."} IN
    IF dots = {} THEN <<>>
    ELSE SubSeq(path, CHOOSE i \in dots : \A j \in dots : i <= j, Len(path))

Ext(path) == ExtFrom(path, Len(path))

getFileType(filename) ==
    LET ext == ToLower(Ext(filename)) IN
    IF ext \in AudioExts THEN Str_audio
    ELSE IF ext \in VideoExts THEN Str_video
    ELSE IF ext \in ImageExts THEN Str_image
    ELSE <<>>

\* File names: a stem followed by an ending.
FileStems == {<<>>, <<"x">>, <<"s","o","n","g">>, <<"c","l","i","p">>,
              <<"a",".","b">>}
FileEndings ==
    AudioExts \cup VideoExts \cup ImageExts
    \cup {<<>>, <<".">>, <<".","p","d","f">>, <<".","M","P","3">>, <<".","J","p","E","g">>,
          <<"m","p","3">>, <<".","m","p","3","x">>, <<".","m","p","3",".">>,
          <<".","m","p","3",".","t","x","t">>}
FileNames == {st \o e : st \in FileStems, e \in FileEndings}

FileContents == {"bytes1", "bytes2"}

\* The multipart request: the form parses or not, carries a "file" field
\* or not.
UploadRequests ==
    {[formOk |-> TRUE, hasFile |-> TRUE, filename |-> f, content |-> c] :
        f \in FileNames, c \in FileContents}
    \cup {[formOk |-> ok, hasFile |-> FALSE, filename |-> <<>>, content |-> ""] :
            ok \in BOOLEAN}

\* open: what the invocation holds open; opened: what it has opened so far;
\* before: the bucket when the request arrived (history only).
UplIdle == [pc |-> "idle", served |-> 0,
            req |-> [formOk |-> FALSE, hasFile |-> FALSE, filename |-> <<>>,
                     content |-> ""],
            fileType |-> <<>>, objectName |-> <<>>, open |-> {}, opened |-> {},
            before |-> {}, status |-> 0, resp |-> [message |-> ""]]

\* sendErrorResponse(w, statusCode, message)
ErrorResponse(statusCode, message) == [code |-> statusCode, message |-> message]

\* return: the deferred client.Close() and file.Close() run, in that order;
\* a writer is closed only by an explicit writer.Close().
UplReturn(u) == [u EXCEPT !.pc = "done", !.open = u.open \ {"client", "file"}]

\* The platform hands a request to the handler.
UplReceive ==
    /\ upl.pc \in {"idle", "done"}
    /\ upl.served < MaxUploads
    /\ \E r \in UploadRequests :
        upl' = [UplIdle EXCEPT !.pc = "parseForm", !.served = upl.served + 1,
                               !.req = r, !.before = mediaBucket]
    /\ UNCHANGED <<val, reg, accounts, au, prof, users, mediaBucket, tr,
                   destBucket, geminiFiles>>

\* r.ParseMultipartForm(maxFileSize)
UplParseForm ==
    /\ upl.pc = "parseForm"
    /\ upl' = IF upl.req.formOk
              THEN [upl EXCEPT !.pc = "formFile"]
              ELSE UplReturn([upl EXCEPT !.status = StatusBadRequest,
                       !.resp = ErrorResponse(StatusBadRequest, "Failed to parse form")])
    /\ UNCHANGED <<val, reg, accounts, au, prof, users, mediaBucket, tr,
                   destBucket, geminiFiles>>

\* r.FormFile("file"); defer file.Close()
UplFormFile ==
    /\ upl.pc = "formFile"
    /\ upl' = IF upl.req.hasFile
              THEN [upl EXCEPT !.pc = "fileType",
                               !.open = upl.open \cup {"file"},
                               !.opened = upl.opened \cup {"file"}]
              ELSE UplReturn([upl EXCEPT !.status = StatusBadRequest,
                       !.resp = ErrorResponse(StatusBadRequest, "No file uploaded")])
    /\ UNCHANGED <<val, reg, accounts, au, prof, users, mediaBucket, tr,
                   destBucket, geminiFiles>>

\* fileType := getFileType(header.Filename); if fileType == "" { 400 }
UplFileType ==
    /\ upl.pc = "fileType"
    /\ LET fileType == getFileType(upl.req.filename) IN
       upl' = IF fileType = <<>>
              THEN UplReturn([upl EXCEPT !.status = StatusBadRequest,
                       !.resp = ErrorResponse(StatusBadRequest, "Unsupported file type")])
              ELSE [upl EXCEPT !.pc = "newClient", !.fileType = fileType]
    /\ UNCHANGED <<val, reg, accounts, au, prof, users, mediaBucket, tr,
                   destBucket, geminiFiles>>

\* storage.NewClient(ctx); defer client.Close()
UplNewClient ==
    /\ upl.pc = "newClient"
    /\ \E ok \in BOOLEAN :
        upl' = IF ok
               THEN [upl EXCEPT !.pc = "newWriter",
                                !.open = upl.open \cup {"client"},
                                !.opened = upl.opened \cup {"client"}]
               ELSE UplReturn([upl EXCEPT !.status = StatusInternalServerError,
                        !.resp = ErrorResponse(StatusInternalServerError,
                                               "Failed to create storage client")])
    /\ UNCHANGED <<val, reg, accounts, au, prof, users, mediaBucket, tr,
                   destBucket, geminiFiles>>

\* objectName := fmt.Sprintf("%s/%s", fileType, header.Filename)
ObjectName(fileType, filename) == fileType \o <<"/">> \o filename

\* writer := bucket.Object(objectName).NewWriter(ctx): the write is started.
UplNewWriter ==
    /\ upl.pc = "newWriter"
    /\ upl' = [upl EXCEPT !.pc = "copy",
                          !.objectName = ObjectName(upl.fileType, upl.req.filename),
                          !.open = upl.open \cup {"writer"},
                          !.opened = upl.opened \cup {"writer"}]
    /\ UNCHANGED <<val, reg, accounts, au, prof, users, mediaBucket, tr,
                   destBucket, geminiFiles>>

\* io.Copy(writer, file): on an error the handler answers 500 and returns.
UplCopy ==
    /\ upl.pc = "copy"
    /\ \E ok \in BOOLEAN :
        upl' = IF ok
               THEN [upl EXCEPT !.pc = "closeWriter"]
               ELSE UplReturn([upl EXCEPT !.status = StatusInternalServerError,
                        !.resp = ErrorResponse(StatusInternalServerError,
                                               "Failed to upload file")])
    /\ UNCHANGED <<val, reg, accounts, au, prof, users, mediaBucket, tr,
                   destBucket, geminiFiles>>

\* The bucket with an object stored (or replaced) under a name.
PutObject(bucket, name, content) ==
    {o \in bucket : o.name # name} \cup {[name |-> name, content |-> content]}

\* writer.Close(): the object is committed when it succeeds.
UplCloseWriter ==
    /\ upl.pc = "closeWriter"
    /\ \E ok \in BOOLEAN :
        IF ok
        THEN /\ mediaBucket' = PutObject(mediaBucket, upl.objectName, upl.req.content)
             /\ upl' = [upl EXCEPT !.pc = "respond", !.open = upl.open \ {"writer"}]
        ELSE /\ mediaBucket' = mediaBucket
             /\ upl' = UplReturn([upl EXCEPT !.open = upl.open \ {"writer"},
                         !.status = StatusInternalServerError,
                         !.resp = ErrorResponse(StatusInternalServerError,
                                                "Failed to finalize upload")])
    /\ UNCHANGED <<val, reg, accounts, au, prof, users, tr,
                   destBucket, geminiFiles>>

Str_urlPrefix ==
    <<"h","t","t","p","s",":","/","/","s","t","o","r","a","g","e",".","c","l","o","u","d",
      ".","g","o","o","g","l","e",".","c","o","m","/">>
bucketName == <<"s","y","n","a","p","s","c","r","i","b","e","-","m","e","d","i","a">>

\* The MediaUploadResponse the handler encodes (uploadedAt, the wall clock,
\* is left out).
MediaUploadResponse(filename, fileType, objectName) ==
    [fileUrl |-> Str_urlPrefix \o bucketName \o <<"/">> \o objectName,
     fileName |-> filename, fileType |-> fileType]

\* w.WriteHeader(http.StatusOK); json.NewEncoder(w).Encode(response)
UplRespond ==
    /\ upl.pc = "respond"
    /\ upl' = UplReturn([upl EXCEPT !.status = StatusOK,
                  !.resp = MediaUploadResponse(upl.req.filename, upl.fileType,
                                               upl.objectName)])
    /\ UNCHANGED <<val, reg, accounts, au, prof, users, mediaBucket, tr,
                   destBucket, geminiFiles>>

----------------------------------------------------------------------------
(* AudioTranscription, transcribeAudio, parseGCSURL.                       *)

MaxDeliveries == 2   \* deliveries of the storage event in one behaviour

Deliveries == 1..MaxDeliveries

Str_gs == <<"g","s",":","/","/">>
Str_transcription == <<"t","r","a","n","s","c","r","i","p","t","i","o","n","-">>
Str_txt == <<".","t","x","t">>
Str_interview_mp3 == <<"i","n","t","e","r","v","i","e","w",".","m","p","3">>

\* The storage events: a payload that does not decode, or bucket and name.
Events ==
    {[decodable |-> TRUE, bucket |-> b, name |-> n] :
        b \in {<<"b">>, <<>>},
        n \in {Str_interview_mp3, Str_audio \o <<"/">> \o <<"s",".","m","p","3">>, <<>>}}
    \cup {[decodable |-> FALSE, bucket |-> <<>>, name |-> <<>>]}

\* A candidate's Content pointer: nil (the service sent a candidate without
\* content), or a content with its parts.
NilContent == [isNil |-> TRUE, parts |-> <<>>]
Content(ps) == [isNil |-> FALSE, parts |-> ps]

\* What GenerateContent can answer: the candidates.
Responses ==
    {<<>>,
     <<[content |-> NilContent]>>,
     <<[content |-> Content(<<>>)]>>,
     <<[content |-> Content(<<"hello world">>)]>>,
     <<[content |-> Content(<<"hello", "world">>)],
       [content |-> Content(<<"other">>)]>>,
     <<[content |-> Content(<<>>)], [content |-> Content(<<"other">>)]>>,
     <<[content |-> NilContent], [content |-> Content(<<"other">>)]>>}

TrInvIdle == [pc |-> "idle", result |-> Pending, failedAt |-> "",
              open |-> {}, opened |-> {},
              src |-> [bucket |-> <<>>, object |-> <<>>],
              fileURI |-> 0, resp |-> <<>>, transcription |-> "",
              object |-> <<>>, writeStarted |-> FALSE, closeFailed |-> FALSE]

NoEvent == [decodable |-> FALSE, bucket |-> <<>>, name |-> <<>>]

TrIdle == [event |-> NoEvent, inv |-> [d \in Deliveries |-> TrInvIdle]]

\* gcsURL := fmt.Sprintf("gs://%s/%s", data.Bucket, data.Name)
GcsURL(data) == Str_gs \o data.bucket \o <<"/">> \o data.name

\* parseGCSURL: strip "gs://", split once at the first "/".
parseGCSURL(url) ==
    IF ~HasPrefix(url, Str_gs)
    THEN [bucket |-> <<>>, object |-> <<>>, err |-> "invalid GCS URL format"]
    ELSE LET path    == TrimPrefix(url, Str_gs)
             slashes == {i \in 1..Len(path) : path[i] = "/"}
         IN IF slashes = {}
            THEN [bucket |-> <<>>, object |-> <<>>, err |-> "invalid GCS URL format"]
            ELSE LET i == CHOOSE k \in slashes : \A m \in slashes : k <= m
                 IN [bucket |-> SubSeq(path, 1, i - 1),
                     object |-> SubSeq(path, i + 1, Len(path)),
                     err |-> Nil]

\* object := fmt.Sprintf("transcription-%s.txt", data.Name)
TranscriptionObject(name) == Str_transcription \o name \o Str_txt

\* The resources AudioTranscription and transcribeAudio close by defer.
TrDeferred == {"genai", "gcsRead", "reader", "gcsWrite", "writer"}

\* return err: the message is logged, the deferred closes run.
TrFail(i, step, err) ==
    [i EXCEPT !.pc = "done", !.result = err, !.failedAt = step,
              !.open = i.open \ TrDeferred]

\* A run-time panic: the handler returns nothing, the deferred closes run
\* while the stack unwinds.
Panic == "panic: runtime error: invalid memory address or nil pointer dereference"

TrPanic(i, step) ==
    [i EXCEPT !.pc = "done", !.result = Panic, !.failedAt = step,
              !.open = i.open \ TrDeferred]

TrOpen(i, r, next) ==
    [i EXCEPT !.pc = next, !.open = i.open \cup {r}, !.opened = i.opened \cup {r}]

TrOthers == <<val, reg, accounts, au, prof, users, upl, mediaBucket>>

\* The platform delivers the event: the first delivery, or a redelivery
\* after the previous invocation has returned.
TrDeliver(d) ==
    /\ tr.inv[d].pc = "idle"
    /\ \A e \in Deliveries : e < d => tr.inv[e].pc = "done"
    /\ tr' = [tr EXCEPT !.inv[d].pc = "decode"]
    /\ UNCHANGED <<TrOthers, destBucket, geminiFiles>>

\* The platform delivers the event again while an earlier delivery may
\* still be running.
TrDeliverOverlapping(d) ==
    /\ tr.inv[d].pc = "idle"
    /\ \A e \in Deliveries : e < d => tr.inv[e].pc # "idle"
    /\ tr' = [tr EXCEPT !.inv[d].pc = "decode"]
    /\ UNCHANGED <<TrOthers, destBucket, geminiFiles>>

\* e.DataAs(&data)
TrDecode(d) ==
    /\ tr.inv[d].pc = "decode"
    /\ tr' = [tr EXCEPT !.inv[d] =
                IF tr.event.decodable
                THEN [@ EXCEPT !.pc = "newGenai"]
                ELSE TrFail(@, "decode", "event.DataAs")]
    /\ UNCHANGED <<TrOthers, destBucket, geminiFiles>>

\* genai.NewClient(ctx, ...); defer client.Close()
TrNewGenaiClient(d) ==
    /\ tr.inv[d].pc = "newGenai"
    /\ \E ok \in BOOLEAN :
        tr' = [tr EXCEPT !.inv[d] =
                IF ok THEN TrOpen(@, "genai", "parseURL")
                ELSE TrFail(@, "newGenai", "failed to create Gemini client")]
    /\ UNCHANGED <<TrOthers, destBucket, geminiFiles>>

\* transcribeAudio: parseGCSURL(gcsURL)
TrParseURL(d) ==
    /\ tr.inv[d].pc = "parseURL"
    /\ LET p == parseGCSURL(GcsURL(tr.event)) IN
       tr' = [tr EXCEPT !.inv[d] =
                IF p.err = Nil
                THEN [@ EXCEPT !.pc = "newReadClient",
                               !.src = [bucket |-> p.bucket, object |-> p.object]]
                ELSE TrFail(@, "parseURL", "failed to transcribe audio: invalid GCS URL")]
    /\ UNCHANGED <<TrOthers, destBucket, geminiFiles>>

\* transcribeAudio: storage.NewClient(ctx, read-only); defer gcsClient.Close()
TrNewReadClient(d) ==
    /\ tr.inv[d].pc = "newReadClient"
    /\ \E ok \in BOOLEAN :
        tr' = [tr EXCEPT !.inv[d] =
                IF ok THEN TrOpen(@, "gcsRead", "newReader")
                ELSE TrFail(@, "newReadClient",
                            "failed to transcribe audio: failed to create GCS client")]
    /\ UNCHANGED <<TrOthers, destBucket, geminiFiles>>

\* transcribeAudio: obj.NewReader(ctx); defer reader.Close().  The source
\* object is only read; an object without bucket or name cannot be opened.
TrNewReader(d) ==
    /\ tr.inv[d].pc = "newReader"
    /\ \E found \in BOOLEAN :
        tr' = [tr EXCEPT !.inv[d] =
                IF found /\ @.src.bucket # <<>> /\ @.src.object # <<>>
                THEN TrOpen(@, "reader", "uploadFile")
                ELSE TrFail(@, "newReader",
                            "failed to transcribe audio: failed to create reader for GCS object")]
    /\ UNCHANGED <<TrOthers, destBucket, geminiFiles>>

\* transcribeAudio: client.UploadFile(ctx, "", reader, nil): with no name
\* given the service stores the bytes as a new file under a fresh name.
TrUploadFile(d) ==
    /\ tr.inv[d].pc = "uploadFile"
    /\ \E ok \in BOOLEAN :
        IF ok
        THEN LET uri == Cardinality(geminiFiles) + 1 IN
             /\ geminiFiles' = geminiFiles \cup
                    {[uri |-> uri, source |-> tr.inv[d].src]}
             /\ tr' = [tr EXCEPT !.inv[d].pc = "generate", !.inv[d].fileURI = uri]
        ELSE /\ geminiFiles' = geminiFiles
             /\ tr' = [tr EXCEPT !.inv[d] =
                        TrFail(@, "uploadFile",
                               "failed to transcribe audio: unable to upload file")]
    /\ UNCHANGED <<TrOthers, destBucket>>

\* transcribeAudio: model.GenerateContent(ctx, FileData{URI}, Text(prompt))
TrGenerate(d) ==
    /\ tr.inv[d].pc = "generate"
    /\ \/ \E res \in Responses :
            tr' = [tr EXCEPT !.inv[d].pc = "extract", !.inv[d].resp = res]
       \/ tr' = [tr EXCEPT !.inv[d] =
                    TrFail(@, "generate",
                           "failed to transcribe audio: unable to generate contents")]
    /\ UNCHANGED <<TrOthers, destBucket, geminiFiles>>

\* len(res.Candidates) == 0 || len(res.Candidates[0].Content.Parts) == 0:
\* "panic" when the first candidate's Content is nil (the field access
\* dereferences the pointer), else whether the response is empty.
EmptyResponse(res) ==
    IF Len(res) = 0 THEN "empty"
    ELSE IF res[1].content.isNil THEN "panic"
    ELSE IF Len(res[1].content.parts) = 0 THEN "empty"
    ELSE "usable"

\* transcribeAudio: the empty-response check (which panics on a first
\* candidate without content), the first part of the first candidate, and
\* the return (reader and read client are closed by defer).
TrExtract(d) ==
    /\ tr.inv[d].pc = "extract"
    /\ tr' = [tr EXCEPT !.inv[d] =
                IF EmptyResponse(@.resp) = "panic"
                THEN TrPanic(@, "extract")
                ELSE IF EmptyResponse(@.resp) = "empty"
                THEN TrFail(@, "extract",
                            "failed to transcribe audio: empty response from model")
                ELSE [@ EXCEPT !.pc = "newWriteClient",
                               !.transcription =
                                   tr.inv[d].resp[1].content.parts[1],
                               !.open = @ \ {"reader", "gcsRead"}]]
    /\ UNCHANGED <<TrOthers, destBucket, geminiFiles>>

\* storage.NewClient(ctx); defer gcsClient.Close()
TrNewWriteClient(d) ==
    /\ tr.inv[d].pc = "newWriteClient"
    /\ \E ok \in BOOLEAN :
        tr' = [tr EXCEPT !.inv[d] =
                IF ok THEN TrOpen(@, "gcsWrite", "newWriter")
                ELSE TrFail(@, "newWriteClient", "failed to create GCS client")]
    /\ UNCHANGED <<TrOthers, destBucket, geminiFiles>>

\* writer := obj.NewWriter(ctx); defer writer.Close(): the write to the
\* destination bucket is started.
TrNewWriter(d) ==
    /\ tr.inv[d].pc = "newWriter"
    /\ tr' = [tr EXCEPT !.inv[d] =
                [TrOpen(@, "writer", "write") EXCEPT
                    !.object = TranscriptionObject(tr.event.name),
                    !.writeStarted = TRUE]]
    /\ UNCHANGED <<TrOthers, destBucket, geminiFiles>>

\* writer.Write([]byte(transcription)): on an error the handler returns it
\* (the deferred Close then commits nothing).
TrWrite(d) ==
    /\ tr.inv[d].pc = "write"
    /\ \E ok \in BOOLEAN :
        tr' = [tr EXCEPT !.inv[d] =
                IF ok THEN [@ EXCEPT !.pc = "return"]
                ELSE TrFail(@, "write", "failed to write transcription to GCS")]
    /\ UNCHANGED <<TrOthers, destBucket, geminiFiles>>

\* logJSON("Transcription completed successfully"); return nil.  The
\* deferred writer.Close() commits the object or fails; its error is
\* dropped.  Then the clients are closed.
TrReturnNil(d) ==
    /\ tr.inv[d].pc = "return"
    /\ \E closeOk \in BOOLEAN :
        /\ destBucket' = IF closeOk
                         THEN PutObject(destBucket, tr.inv[d].object,
                                        tr.inv[d].transcription)
                         ELSE destBucket
        /\ tr' = [tr EXCEPT !.inv[d] =
                    [@ EXCEPT !.pc = "done", !.result = Nil,
                              !.closeFailed = ~closeOk,
                              !.open = @ \ TrDeferred]]
    /\ UNCHANGED <<TrOthers, geminiFiles>>

----------------------------------------------------------------------------
(* Specifications: one per handler; the other handlers stay idle.          *)

InitIdle ==
    /\ val = ValIdle
    /\ reg = RegIdle
    /\ accounts = {}
    /\ au = AuIdle
    /\ prof = ProfIdle
    /\ users = InitialUsers
    /\ upl = UplIdle
    /\ mediaBucket = {}
    /\ tr = TrIdle
    /\ destBucket = {}
    /\ geminiFiles = {}

\* User.Validate on every input of ValidateInputs.
InitValidate ==
    /\ \E e \in Emails, p \in Passwords, n \in Names :
        val = [user |-> [email |-> e, password |-> p, name |-> n],
               result |-> Pending]
    /\ reg = RegIdle
    /\ accounts = {}
    /\ au = AuIdle
    /\ prof = ProfIdle
    /\ users = InitialUsers
    /\ upl = UplIdle
    /\ mediaBucket = {}
    /\ tr = TrIdle
    /\ destBucket = {}
    /\ geminiFiles = {}

NextValidate == DoValidate

SpecValidate == InitValidate /\ [][NextValidate]_vars

\* UserRegistration.
NextRegistration ==
    \/ RegReceive
    \/ RegDecode
    \/ RegValidate
    \/ RegNewApp
    \/ RegAuthClient
    \/ RegCreateUser
    \/ RegRespond

SpecRegistration == InitIdle /\ [][NextRegistration]_vars

\* UserAuthentication.
NextAuthentication ==
    \/ AuReceive
    \/ AuDecode
    \/ AuSignInNoAnswer
    \/ AuSignIn
    \/ AuNewApp
    \/ AuAuthClient
    \/ AuVerify
    \/ AuRespond

SpecAuthentication == InitIdle /\ [][NextAuthentication]_vars

\* UserProfileManagement.
NextProfile ==
    \/ ProfReceive
    \/ ProfNewApp
    \/ ProfAuthClient
    \/ ProfExtract
    \/ ProfVerify
    \/ ProfDispatch
    \/ handleGetProfile
    \/ ProfDecode
    \/ handleUpdateProfile

SpecProfile == InitIdle /\ [][NextProfile]_vars

\* MediaUpload.
NextUpload ==
    \/ UplReceive
    \/ UplParseForm
    \/ UplFormFile
    \/ UplFileType
    \/ UplNewClient
    \/ UplNewWriter
    \/ UplCopy
    \/ UplCloseWriter
    \/ UplRespond

SpecUpload == InitIdle /\ [][NextUpload]_vars

\* AudioTranscription: one storage event, delivered once or redelivered.
InitTranscription ==
    /\ val = ValIdle
    /\ reg = RegIdle
    /\ accounts = {}
    /\ au = AuIdle
    /\ prof = ProfIdle
    /\ users = InitialUsers
    /\ upl = UplIdle
    /\ mediaBucket = {}
    /\ \E e \in Events : tr = [TrIdle EXCEPT !.event = e]
    /\ destBucket = {}
    /\ geminiFiles = {}

TrStep(d) ==
    \/ TrDecode(d)
    \/ TrNewGenaiClient(d)
    \/ TrParseURL(d)
    \/ TrNewReadClient(d)
    \/ TrNewReader(d)
    \/ TrUploadFile(d)
    \/ TrGenerate(d)
    \/ TrExtract(d)
    \/ TrNewWriteClient(d)
    \/ TrNewWriter(d)
    \/ TrWrite(d)
    \/ TrReturnNil(d)

NextTranscription == \E d \in Deliveries : TrDeliver(d) \/ TrStep(d)

SpecTranscription == InitTranscription /\ [][NextTranscription]_vars

NextRedelivery == \E d \in Deliveries : TrDeliverOverlapping(d) \/ TrStep(d)

SpecRedelivery == InitTranscription /\ [][NextRedelivery]_vars

----------------------------------------------------------------------------
(* Properties.                                                             *)

\* The steps of AudioTranscription that come before the destination writer
\* is created.
PreWriteSteps ==
    {"decode", "newGenai", "parseURL", "newReadClient", "newReader",
     "uploadFile", "generate", "extract", "newWriteClient"}

\* A model response with no candidates, or whose first candidate has no
\* content parts.
NoUsableText(res) ==
    res = <<>> \/ res[1].content.isNil \/ res[1].content.parts = <<>>

\* GenerateContent has answered delivery d and the answer has been examined.
ResponseExamined(i) ==
    i.fileURI # 0 /\ i.failedAt # "generate" /\ i.pc \notin {"generate", "extract"}

\* The handler returned a non-nil error (a panic returns nothing).
IsError(result) == result \notin {Nil, Pending, Panic}

\* C1 as stated: in AudioTranscription every failure before the write (event decode,
\* client creation, opening the source object, file submission, content
\* generation, a response with no candidates or with no content parts in
\* its first candidate) makes the handler return a non-nil error, and no
\* write to the destination bucket is started in that invocation.
C1_FailureBeforeWriteReturnsErrorAndWritesNothing ==
    /\ \A d \in Deliveries :
        LET i == tr.inv[d] IN
        /\ i.failedAt \in PreWriteSteps =>
              /\ i.pc = "done" /\ IsError(i.result)
              /\ ~i.writeStarted /\ "writer" \notin i.opened
        /\ (i.pc \notin {"idle", "decode"} /\ ~tr.event.decodable) =>
              /\ i.pc = "done" /\ IsError(i.result) /\ ~i.writeStarted
        /\ (ResponseExamined(i) /\ NoUsableText(i.resp)) =>
              /\ i.pc = "done" /\ IsError(i.result) /\ ~i.writeStarted
        /\ i.writeStarted =>
              /\ tr.event.decodable /\ i.fileURI # 0 /\ ~NoUsableText(i.resp)
              /\ {"genai", "gcsRead", "reader", "gcsWrite"} \subseteq i.opened
    /\ (\A d \in Deliveries : ~tr.inv[d].writeStarted) => destBucket = {}

\* The part of C1 that holds on every path, a panic included: an invocation
\* that ends before the destination writer is created starts no write.
NoWriteBeforeFailure ==
    /\ \A d \in Deliveries :
        LET i == tr.inv[d] IN
        /\ i.failedAt \in PreWriteSteps =>
              i.pc = "done" /\ ~i.writeStarted /\ "writer" \notin i.opened
        /\ (ResponseExamined(i) /\ NoUsableText(i.resp)) =>
              i.pc = "done" /\ ~i.writeStarted
        /\ (i.failedAt \in PreWriteSteps /\ i.result # Panic) => IsError(i.result)
    /\ (\A d \in Deliveries : ~tr.inv[d].writeStarted) => destBucket = {}

\* A request's X-Forwarded-Authorization header starts with "Bearer ".
HasBearer(r) ==
    Len(r.xForwardedAuthorization) >= 7
    /\ SubSeq(r.xForwardedAuthorization, 1, 7) = Str_Bearer

RecordOps == {"GetUser", "UpdateUser"}
NoRecordCall == \A k \in 1..Len(prof.calls) : prof.calls[k].op \notin RecordOps

\* C2 as stated: every profile request whose X-Forwarded-Authorization
\* header is absent or lacks the "Bearer " prefix is answered 401, whatever
\* its method and other headers, and no user record is read or updated.
C2_NoBearerAlways401 ==
    (prof.pc = "done" /\ ~HasBearer(prof.req)) =>
        /\ prof.status = StatusUnauthorized
        /\ NoRecordCall /\ users = prof.before

\* C2 as amended: such a request is answered 401 once the Firebase app and
\* the Auth client have been created, and 500 when either creation fails
\* (both happen before the header is read); in no case is a user record read
\* or updated.
C2_NoBearer401UnlessInitFails ==
    (prof.pc = "done" /\ ~HasBearer(prof.req)) =>
        /\ prof.status = IF prof.failed \in {"NewApp", "Auth"}
                         THEN StatusInternalServerError
                         ELSE StatusUnauthorized
        /\ NoRecordCall /\ users = prof.before

\* Witness of C2: a PUT that carries a valid token in the standard
\* Authorization header only was answered 401.
C2_Witness ==
    /\ prof.pc = "done" /\ prof.req.method = "PUT"
    /\ prof.req.xForwardedAuthorization = <<>>
    /\ prof.req.authorization = Str_Bearer \o Token1
    /\ prof.status = StatusUnauthorized

\* The four conditions of a valid account, stated on characters: the
\* e-mail matches the pattern, the password has at least 8 characters and
\* holds an upper-case letter, a lower-case letter and a digit, and the name
\* is not blank.
HasUpperLetter(s) == \E i \in 1..Len(s) : s[i] \in UpperLetters
HasLowerLetter(s) == \E i \in 1..Len(s) : s[i] \in LowerLetters
HasDigit(s)       == \E i \in 1..Len(s) : s[i] \in Digits
NotBlank(s)       == \E i \in 1..Len(s) : s[i] \notin WhiteSpace

ValidAccount(u) ==
    /\ emailRegex(u.email)
    /\ Len(u.password) >= MinPasswordLen
    /\ HasUpperLetter(u.password)
    /\ HasLowerLetter(u.password)
    /\ HasDigit(u.password)
    /\ NotBlank(u.name)

\* C3 as stated: Validate returns nil if and only if the e-mail matches the
\* pattern, the password has length at least 8 and contains an upper-case
\* letter, a lower-case letter and a digit, and the name is not blank.
C3_ValidateIffAllFourConditions ==
    val.result \notin {Pending, "unused"} =>
        (val.result = Nil <=> ValidAccount(val.user))

\* The same equivalence for passwords of ASCII characters only, where bytes
\* and characters coincide and case mapping is defined on every letter.
IsAscii(s) == \A i \in 1..Len(s) : RuneLen(s[i]) = 1

ValidateIffOnAscii ==
    (val.result \notin {Pending, "unused"} /\ IsAscii(val.user.password)) =>
        (val.result = Nil <=> ValidAccount(val.user))

CreateUserCalled == \E k \in 1..Len(reg.calls) : reg.calls[k] = "CreateUser"

\* C4: UserRegistration calls the provider's account creation only after
\* the body decoded and Validate succeeded; a request that fails either gets
\* 400 and creates no account; a failed creation gets 500 with the fixed
\* message "Failed to register user"; 201 is answered only after the account
\* was created, with exactly the provider-issued id and the submitted e-mail
\* and name in the body, never the password.
C4_RegistrationOrderAndAnswers ==
    /\ CreateUserCalled =>
          reg.body.wellFormed /\ Validate(reg.body.user) = Nil
    /\ (reg.pc = "done" /\ (~reg.body.wellFormed
                            \/ Validate(reg.body.user) # Nil)) =>
          /\ reg.status = StatusBadRequest
          /\ reg.calls = <<>> /\ accounts = reg.before
    /\ (reg.pc = "done" /\ reg.body.wellFormed
        /\ Validate(reg.body.user) = Nil /\ accounts = reg.before) =>
          /\ reg.status = StatusInternalServerError
          /\ reg.resp = [message |-> "Failed to register user"]
    /\ reg.status = StatusInternalServerError =>
          reg.resp = [message |-> "Failed to register user"]
    /\ reg.status = StatusCreated =>
          /\ reg.calls = <<"NewApp", "Auth", "CreateUser">>
          /\ DOMAIN reg.resp = {"id", "email", "name"}
          /\ reg.resp.email = reg.body.user.email
          /\ reg.resp.name = reg.body.user.name
          /\ \E a \in accounts \ reg.before :
                /\ accounts = reg.before \cup {a}
                /\ a.uid = reg.resp.id
                /\ a.email = reg.body.user.email
                /\ a.password = reg.body.user.password
                /\ a.displayName = reg.body.user.name

\* Witness of C4: {email "a@b.com", password "Passw0rd", name "Ada"} was
\* answered 201 with that e-mail and name and the id of the new account.
C4_Witness ==
    /\ reg.pc = "done" /\ reg.status = StatusCreated
    /\ reg.body.user = [email |-> Str_a_b_com, password |-> Str_Passw0rd,
                        name |-> Str_Ada]
    /\ reg.resp = [id |-> 1, email |-> Str_a_b_com, name |-> Str_Ada]

AuthSteps == <<"Decode", "signInWithPassword", "NewApp", "Auth", "VerifyIDToken">>

IsPrefix(s, t) == Len(s) <= Len(t) /\ s = SubSeq(t, 1, Len(s))

AuCalled(op) == \E k \in 1..Len(au.calls) : au.calls[k] = op

\* C5: UserAuthentication runs decode, password sign-in, token
\* verification, response in that order; 200 with an idToken is answered
\* only when sign-in returned 200 and the returned token was then verified;
\* a non-200 sign-in is answered 401 without any verification; a token that
\* fails verification is answered 401 and is not returned.
C5_AuthenticationOrderAndAnswers ==
    /\ IsPrefix(au.calls, AuthSteps)
    /\ (au.status = StatusOK \/ "idToken" \in DOMAIN au.resp) =>
          /\ au.status = StatusOK
          /\ au.signIn.status = StatusOK
          /\ au.verified = "ok"
          /\ au.calls = AuthSteps
          /\ au.resp.idToken = au.signIn.idToken
    /\ (au.pc \notin {"idle", "decode", "signIn"} /\ au.body.wellFormed
        /\ au.signIn.status # StatusOK) =>
          /\ au.pc = "done" /\ au.status = StatusUnauthorized
          /\ ~AuCalled("VerifyIDToken")
    /\ au.verified = "failed" =>
          /\ au.pc = "done" /\ au.status = StatusUnauthorized
          /\ "idToken" \notin DOMAIN au.resp

\* Witness of C5: a sign-in answered 200 whose token was verified, and the
\* handler answered 200 with that token.
C5_Witness ==
    /\ au.pc = "done" /\ au.status = StatusOK
    /\ au.signIn.status = StatusOK /\ au.verified = "ok"
    /\ au.resp.idToken = "tokenA"

\* A file name ends with an extension of the list, letter case ignored.
EndsWithFold(f, e) ==
    Len(f) >= Len(e) /\ ToLower(SubSeq(f, Len(f) - Len(e) + 1, Len(f))) = e

\* The type the allow-list gives a file name; <<>> for none.
AllowedType(f) ==
    IF \E e \in AudioExts : EndsWithFold(f, e) THEN Str_audio
    ELSE IF \E e \in VideoExts : EndsWithFold(f, e) THEN Str_video
    ELSE IF \E e \in ImageExts : EndsWithFold(f, e) THEN Str_image
    ELSE <<>>

Str_clip_mp4 == <<"c","l","i","p",".","m","p","4">>
Str_song_mp3 == <<"s","o","n","g",".","m","p","3">>

\* C6: getFileType gives a file name the one type of its allow-listed
\* extension (mp3, wav, ogg: audio; mp4, mov, avi: video; jpg, jpeg, png,
\* gif: image) and no type otherwise; a file without an allow-listed
\* extension is answered 400 and no storage write is started; an accepted file
\* is written under "<type>/<original-filename>" and the same type is
\* returned as fileType.
C6_FileTypeAndObjectKey ==
    LET f == upl.req.filename
        t == AllowedType(f)
    IN  /\ getFileType(Str_song_mp3) = Str_audio
        /\ getFileType(<<"x",".","p","d","f">>) = <<>>
        /\ getFileType(<<"x">>) = <<>>
        /\ upl.pc \notin {"idle", "parseForm", "formFile", "fileType"} =>
              /\ getFileType(f) = t
              /\ upl.fileType \in {<<>>, t}
        /\ (upl.pc = "done" /\ upl.req.formOk /\ upl.req.hasFile /\ t = <<>>) =>
              /\ upl.status = StatusBadRequest
              /\ "writer" \notin upl.opened
              /\ mediaBucket = upl.before
        /\ "writer" \in upl.opened =>
              /\ t \in {Str_audio, Str_video, Str_image}
              /\ upl.fileType = t
              /\ upl.objectName = t \o <<"/">> \o f
        /\ \A o \in mediaBucket \ upl.before :
              o = [name |-> t \o <<"/">> \o f, content |-> upl.req.content]
        /\ upl.status = StatusOK =>
              /\ upl.resp.fileType = t /\ upl.resp.fileName = f
              /\ [name |-> t \o <<"/">> \o f, content |-> upl.req.content]
                    \in mediaBucket

\* Witness of C6: "clip.mp4" was stored under "video/clip.mp4" and answered
\* with fileType "video".
C6_Witness ==
    /\ upl.pc = "done" /\ upl.status = StatusOK
    /\ upl.req.filename = Str_clip_mp4
    /\ upl.resp.fileType = Str_video
    /\ \E o \in mediaBucket : o.name = Str_video \o <<"/">> \o Str_clip_mp4

ProfVerified ==
    \E k \in 1..Len(prof.calls) :
        /\ prof.calls[k].op = "VerifyIDTokenAndCheckRevoked"
        /\ prof.calls[k].uid # 0

\* The fields of a user record other than the display name.
SameButName(a, b) ==
    a.uid = b.uid /\ a.email = b.email
    /\ a.creationTimestamp = b.creationTimestamp

\* The request carries a Bearer token that the provider holds valid.
HasValidToken(r) ==
    HasBearer(r) /\ TokenValid(TrimPrefix(r.xForwardedAuthorization, Str_Bearer))

\* C7 as stated: in the profile handler every read or update of a user
\* record follows a successful verify-and-check-revoked of the bearer token
\* in the same invocation and targets the UID of that token; GET changes no
\* record; PUT with a well-formed body changes only the display name; PUT
\* with a malformed body is answered 400 and changes nothing; any method
\* other than GET/PUT with a valid token is answered 405 and changes nothing.
C7_MalformedPut400AndValidTokenOtherMethod405 ==
    /\ \A k \in 1..Len(prof.calls) :
          prof.calls[k].op \in RecordOps =>
              /\ k > 1
              /\ prof.calls[k - 1].op = "VerifyIDTokenAndCheckRevoked"
              /\ prof.calls[k - 1].uid = prof.calls[k].uid
              /\ prof.calls[k].uid # 0
              /\ HasValidToken(prof.req)
              /\ prof.calls[k].uid =
                    TokenUID(TrimPrefix(prof.req.xForwardedAuthorization, Str_Bearer))
    /\ \A u \in UIDs :
          /\ SameButName(users[u], prof.before[u])
          /\ users[u] # prof.before[u] =>
                /\ prof.req.method = "PUT" /\ prof.req.body.wellFormed
                /\ u = prof.verifiedUID
                /\ users[u].displayName = prof.req.body.name
    /\ prof.req.method = "GET" => users = prof.before
    /\ (prof.pc = "done" /\ prof.req.method = "PUT"
        /\ ~prof.req.body.wellFormed) =>
          prof.status = StatusBadRequest /\ users = prof.before
    /\ (prof.pc = "done" /\ HasValidToken(prof.req)
        /\ prof.req.method \notin {"GET", "PUT"}) =>
          prof.status = StatusMethodNotAllowed /\ users = prof.before

\* C7 amended: in the profile handler every read or update of a user record
\* follows a successful verify-and-check-revoked of the bearer token in the
\* same invocation and targets the UID of that token; GET changes no record;
\* PUT with a well-formed body changes only the display name; once the token
\* has been verified, PUT with a malformed body is answered 400 and any
\* method other than GET/PUT is answered 405; a request that is answered
\* before the token is verified (500 when the app or the Auth client cannot
\* be created, 401 when the token is missing or its verification fails)
\* changes nothing either.
C7_RecordAccessVerifiedAndFramed ==
    /\ \A k \in 1..Len(prof.calls) :
          prof.calls[k].op \in RecordOps =>
              /\ k > 1
              /\ prof.calls[k - 1].op = "VerifyIDTokenAndCheckRevoked"
              /\ prof.calls[k - 1].uid = prof.calls[k].uid
              /\ prof.calls[k].uid # 0
              /\ TokenValid(TrimPrefix(prof.req.xForwardedAuthorization, Str_Bearer))
              /\ prof.calls[k].uid =
                    TokenUID(TrimPrefix(prof.req.xForwardedAuthorization, Str_Bearer))
              /\ HasBearer(prof.req)
    /\ \A u \in UIDs :
          /\ SameButName(users[u], prof.before[u])
          /\ users[u] # prof.before[u] =>
                /\ prof.req.method = "PUT" /\ prof.req.body.wellFormed
                /\ u = prof.verifiedUID
                /\ users[u].displayName = prof.req.body.name
    /\ prof.req.method = "GET" => users = prof.before
    /\ (prof.pc = "done" /\ ProfVerified /\ prof.req.method = "PUT"
        /\ ~prof.req.body.wellFormed) =>
          prof.status = StatusBadRequest /\ users = prof.before
    /\ (prof.pc = "done" /\ ProfVerified
        /\ prof.req.method \notin {"GET", "PUT"}) =>
          prof.status = StatusMethodNotAllowed /\ users = prof.before
    /\ (prof.pc = "done" /\ ~ProfVerified) =>
          /\ prof.status \in {StatusInternalServerError, StatusUnauthorized}
          /\ users = prof.before

\* Witness of C7: a PUT with token t1 changed the display name of user 1.
C7_Witness ==
    /\ prof.pc = "done" /\ prof.req.method = "PUT" /\ prof.status = StatusOK
    /\ prof.verifiedUID = 1
    /\ users[1].displayName = <<"B","o","b">>
    /\ prof.before[1].displayName = Str_Ada

\* C8 as stated: whenever AudioTranscription returns nil, the object
\* "transcription-<original-name>.txt" exists in the destination bucket and
\* holds the transcription text (so a failed Write or a failed Close of the
\* writer makes the handler return an error).
C8_NilMeansTranscriptStored ==
    \A d \in Deliveries :
        (tr.inv[d].result = Nil
         /\ \A e \in Deliveries : e > d => tr.inv[e].pc = "idle") =>
            [name |-> TranscriptionObject(tr.event.name),
             content |-> tr.inv[d].transcription] \in destBucket

\* C9 as stated: when an invocation of MediaUpload or AudioTranscription
\* has returned, nothing it opened (storage client, transcription client,
\* reader, writer, uploaded-file handle) remains unclosed.
C9_NothingLeftOpenOnReturn ==
    /\ upl.pc = "done" => upl.open = {}
    /\ \A d \in Deliveries : tr.inv[d].pc = "done" => tr.inv[d].open = {}

\* C10 as stated: redelivering the same storage event, sequentially or
\* overlapping, leaves what one delivery leaves: a single destination
\* object, and no external state that grows with the number of deliveries.
C10_RedeliveryLeavesNoExtraState ==
    (\A d \in Deliveries : tr.inv[d].pc \in {"idle", "done"}) =>
        /\ Cardinality(destBucket) <= 1
        /\ \A o \in destBucket : o.name = TranscriptionObject(tr.event.name)
        /\ Cardinality(geminiFiles) <= 1

============================================================================
